---- MODULE Spec2Model ----
(***************************************************************************)
(* A model of tools/run_swo.py: the sampling-while-optimising driver of    *)
(* nqs-playground.  Three groups of definitions:                           *)
(*   - the pure functions (CombiningState.forward, optimise_scale), each   *)
(*     exercised by a specification of its own (SpecEval, SpecScale);      *)
(*   - _make_checkpoints_for with the epoch loop that uses it (SpecTrain); *)
(*   - the orchestrator main / swo_step, with the checkpoint files, the    *)
(*     sampling engine and the ensemble container (Spec).                  *)
(* Floating-point numbers are modelled by exact fractions [num, den];      *)
(* den = 0 encodes the IEEE values +inf, -inf (num = 1, -1) and nan        *)
(* (num = 0).                                                              *)
(***************************************************************************)
EXTENDS Integers, Sequences, FiniteSets, TLC

VARIABLES
    pc,                 \* position of the running code
    args,               \* arguments of the pure function under test
    ret,                \* what the last call returned or raised
    debug,              \* Python's __debug__: are assert statements executed
    i,                  \* main: index of the outer iteration; in a training
                        \* loop on its own, the loop's epoch index i
    config,             \* the options dictionary (_OPTIONS)
    psi,                \* the pair (amplitude network, phase network)
    files,              \* the checkpoint files in the working directory
    loaded,             \* what the sampling engine read from each file
    sampler,            \* the sampling engine: chain state and ensemble
    result,             \* swo_step: the ensemble of the first sampling
    extra_result,       \* swo_step: the ensemble of the difference sampling
    samples,            \* swo_step: configurations of the training set
    target_amplitudes,  \* swo_step: regression targets
    target_phases,      \* swo_step: classification targets
    scale,              \* swo_step: abs(optimise_scale(...))
    trace               \* the operations swo_step has performed so far; in
                        \* a training loop on its own, the epochs it logged

pureVars == <<pc, args, ret, debug>>
orchVars == <<i, config, psi, files, loaded, sampler, result, extra_result,
              samples, target_amplitudes, target_phases, scale, trace>>
vars == <<pc, args, ret, debug, i, config, psi, files, loaded, sampler, result,
          extra_result, samples, target_amplitudes, target_phases, scale, trace>>

(***************************************************************************)
(* Bounds and input sets.                                                  *)
(***************************************************************************)
MaxBatch == 2
MaxLen == 3
MaxSpins == 3
MaxEpochs == 2
MaxBudget == 25

LogitVals == {0, 1, 9}              \* outputs of the phase network, in tenths
AmpInts == {-1, 0, 2}               \* outputs of the amplitude network
PhiInts == {0, 1, 2, 3}             \* old target amplitudes
PsiInts == {-1, 0, 2, 4, 6}         \* predictions of the network
Schedules == {<<1, 2>>, <<2, 1>>}   \* (number of chains, steps of a chain)
AmpOutputs == {0, 1}                \* outputs of the networks main trains
PhaseOutputs == {<<0, 1>>}

(***************************************************************************)
(* Floating-point numbers as exact fractions.                              *)
(***************************************************************************)
AbsInt(n) == IF n < 0 THEN -n ELSE n

SignInt(n) == IF n > 0 THEN 1 ELSE IF n < 0 THEN -1 ELSE 0

RECURSIVE GCD(_, _)
GCD(a, b) == IF b = 0 THEN a ELSE GCD(b, a % b)

\* n/d in lowest terms with a positive denominator; d = 0 gives the IEEE
\* result of dividing n by zero.
Frac(n, d) ==
    IF d = 0
    THEN [num |-> SignInt(n), den |-> 0]
    ELSE LET g == GCD(AbsInt(n), AbsInt(d))
             s == IF d < 0 THEN -1 ELSE 1
         IN  [num |-> (s * n) \div g, den |-> (s * d) \div g]

FNum(n) == [num |-> n, den |-> 1]
FNan == [num |-> 0, den |-> 0]
IsNan(f) == f.den = 0 /\ f.num = 0
IsInf(f) == f.den = 0 /\ f.num # 0

FNeg(f) == [num |-> -f.num, den |-> f.den]

\* abs() and torch.abs
FAbs(f) == [num |-> AbsInt(f.num), den |-> f.den]

FAdd(a, b) ==
    IF IsNan(a) \/ IsNan(b) THEN FNan
    ELSE IF IsInf(a) /\ IsInf(b) THEN (IF a.num = b.num THEN a ELSE FNan)
    ELSE IF IsInf(a) THEN a
    ELSE IF IsInf(b) THEN b
    ELSE Frac(a.num * b.den + b.num * a.den, a.den * b.den)

FMul(a, b) ==
    IF IsNan(a) \/ IsNan(b) THEN FNan
    ELSE IF IsInf(a) \/ IsInf(b)
         THEN [num |-> SignInt(a.num) * SignInt(b.num), den |-> 0]
    ELSE Frac(a.num * b.num, a.den * b.den)

\* Division of tensor elements: IEEE, no exception.
FDiv(a, b) ==
    IF IsNan(a) \/ IsNan(b) THEN FNan
    ELSE IF IsInf(b) THEN (IF IsInf(a) THEN FNan ELSE FNum(0))
    ELSE IF IsInf(a)
         THEN [num |-> a.num * (IF b.num < 0 THEN -1 ELSE 1), den |-> 0]
    ELSE Frac(a.num * b.den, a.den * b.num)

\* f >= 0.0
FGeZero(f) == IF f.den = 0 THEN f.num = 1 ELSE f.num >= 0

FIsZero(f) == f.den # 0 /\ f.num = 0

Floats(S) == {FNum(n) : n \in S}

SeqsUpTo(S, n) == UNION {[1..k -> S] : k \in 0..n}

(***************************************************************************)
(* CombiningState.forward and FastCombiningState.forward.                  *)
(* A batch x is a sequence of rows; row.A is what the amplitude network    *)
(* returns for the row and row.logits what the phase network returns.      *)
(***************************************************************************)
MaxOf(l) == CHOOSE m \in {l[k] : k \in DOMAIN l} : \A k \in DOMAIN l : l[k] <= m

\* A plausible bug: the last maximal index is taken.
TorchMaxIndexLast(l) ==
    (CHOOSE k \in DOMAIN l :
        l[k] = MaxOf(l) /\ \A j \in DOMAIN l : j > k => l[j] < MaxOf(l)) - 1

\* torch.max(t, dim=1)[1] of one row: the (0-based) index of the first
\* maximal value.
TorchMaxIndex(l) ==
    (CHOOSE k \in DOMAIN l :
        l[k] = MaxOf(l) /\ \A j \in DOMAIN l : j < k => l[j] < MaxOf(l)) - 1

CombiningState_forward(x) ==
    LET A == [r \in DOMAIN x |-> x[r].A]
        phi0 == [r \in DOMAIN x |-> TorchMaxIndex(x[r].logits)]
        phi == [r \in DOMAIN x |-> 1 - 2 * phi0[r]]
    IN  [r \in DOMAIN x |-> FMul(A[r], FNum(phi[r]))]

FastCombiningState_forward(x) ==
    LET A == [r \in DOMAIN x |-> x[r].A]
        phi0 == [r \in DOMAIN x |-> TorchMaxIndex(x[r].logits)]
        phi == [r \in DOMAIN x |-> 1 - 2 * phi0[r]]
    IN  [r \in DOMAIN x |-> FMul(A[r], FNum(phi[r]))]

(***************************************************************************)
(* optimise_scale.                                                         *)
(***************************************************************************)
RECURSIVE TorchDot(_, _)
TorchDot(a, b) ==
    IF Len(a) = 0 THEN FNum(0)
    ELSE FAdd(FMul(a[1], b[1]), TorchDot(Tail(a), Tail(b)))

\* A plausible bug: the sign convention is dropped.
optimise_scale_unsigned(psi_x, phi, dbg) ==
    LET A == TorchDot(phi, phi)
        B == TorchDot(phi, psi_x)
    IN  IF dbg /\ ~(~FIsZero(A)) THEN [kind |-> "raised", exc |-> "AssertionError"]
        ELSE IF FIsZero(A) THEN [kind |-> "raised", exc |-> "ZeroDivisionError"]
        ELSE [kind |-> "value", value |-> FDiv(B, A)]

\* A plausible bug: the quotient is taken on tensors and never checked.
optimise_scale_unchecked(psi_x, phi, dbg) ==
    LET A == TorchDot(phi, phi)
        B == TorchDot(phi, psi_x)
    IN  [kind |-> "value", value |-> FDiv(FNeg(B), A)]

\* psi_x is what the network returns for the dataset's configurations,
\* flattened; phi the dataset's targets.  A and B are Python floats, so a
\* zero A that gets past a disabled assert raises ZeroDivisionError.
optimise_scale(psi_x, phi, dbg) ==
    LET A == TorchDot(phi, phi)
        B == TorchDot(phi, psi_x)
    IN  IF dbg /\ ~(~FIsZero(A)) THEN [kind |-> "raised", exc |-> "AssertionError"]
        ELSE IF FIsZero(A) THEN [kind |-> "raised", exc |-> "ZeroDivisionError"]
        ELSE [kind |-> "value", value |-> FDiv(FNeg(B), A)]

(***************************************************************************)
(* Spin configurations and the ensemble container of the sampling engine.  *)
(***************************************************************************)
RECURSIVE SumSpins(_)
SumSpins(c) == IF Len(c) = 0 THEN 0 ELSE c[1] + SumSpins(Tail(c))

\* up-spins minus down-spins
Magnetisation(c) == SumSpins(c)

Configurations(n) == [1..n -> {-1, 1}]

Sector(n, m) == {c \in Configurations(n) : Magnetisation(c) = m}

Magnetisations(n) == {m \in (-n)..n : Sector(n, m) # {}}

\* The proposed move: the spins of two sites are exchanged.
SwapMove(c, a, b) == [c EXCEPT ![a] = c[b], ![b] = c[a]]

IndexOf(e, c) == CHOOSE k \in DOMAIN e : e[k].conf = c

HasConf(e, c) == \E k \in DOMAIN e : e[k].conf = c

\* A visit of configuration c, whose filtered value is v, is recorded.
Record(e, c, v) ==
    IF HasConf(e, c)
    THEN [e EXCEPT ![IndexOf(e, c)].count = @ + 1]
    ELSE Append(e, [conf |-> c, value |-> v, count |-> 1])

\* Ensemble.merge: the union keyed by configuration; values and counts of a
\* shared configuration add up.
RECURSIVE Merge(_, _)
Merge(a, b) ==
    IF Len(b) = 0 THEN a
    ELSE LET h == b[1]
             a1 == IF HasConf(a, h.conf)
                   THEN [a EXCEPT ![IndexOf(a, h.conf)] =
                            [conf |-> h.conf,
                             value |-> FAdd(@.value, h.value),
                             count |-> @.count + h.count]]
                   ELSE Append(a, h)
         IN  Merge(a1, Tail(b))

\* Ensemble.to_tensors
ToTensors(e) ==
    [samples |-> [k \in DOMAIN e |-> e[k].conf],
     values |-> [k \in DOMAIN e |-> e[k].value],
     counts |-> [k \in DOMAIN e |-> e[k].count]]

\* The value the polynomial filter gives configuration c in one sampling
\* pass; kind stands for the state and the operator of that pass.
PassKinds == {"zero", "positive", "mixed"}

FilterValue(kind, c) ==
    CASE kind = "zero" -> FNum(0)
      [] kind = "positive" -> FNum(1)
      [] kind = "mixed" -> FNum(c[1] * (IF c[Len(c)] = 1 THEN 2 ELSE 1))

NoOptions == [number_spins |-> 0, magnetisation |-> 0, steps |-> <<0, 0>>]

SamplerIdle ==
    [kind |-> "zero", options |-> NoOptions, chains |-> 0, conf |-> <<>>,
     step |-> 0, ens |-> <<>>]

\* A plausible bug: the sign of the magnetisation is lost.
ChainOptionsFlipped(cfg) ==
    [number_spins |-> cfg.number_spins, magnetisation |-> -cfg.magnetisation,
     steps |-> cfg.steps]

\* generate_train_data: _C.ChainOptions(number_spins=..., magnetisation=...,
\* batch_size=1024, steps=config["steps"])
ChainOptions(cfg) ==
    [number_spins |-> cfg.number_spins, magnetisation |-> cfg.magnetisation,
     steps |-> cfg.steps]

\* generate_more_data: the same options, built again
MoreChainOptions(cfg) ==
    [number_spins |-> cfg.number_spins, magnetisation |-> cfg.magnetisation,
     steps |-> cfg.steps]

(***************************************************************************)
(* Training targets.                                                       *)
(***************************************************************************)
\* A plausible bug: a strict comparison.
TargetSignsStrict(phi) ==
    [k \in DOMAIN phi |-> IF FGeZero(phi[k]) /\ ~FIsZero(phi[k]) THEN 0 ELSE 1]

\* torch.abs(phi)
TargetAmplitudes(phi) == [k \in DOMAIN phi |-> FAbs(phi[k])]

\* torch.where(phi >= 0.0, torch.tensor([0]), torch.tensor([1]))
TargetSigns(phi) == [k \in DOMAIN phi |-> IF FGeZero(phi[k]) THEN 0 ELSE 1]

(***************************************************************************)
(* Checkpoint files.                                                       *)
(***************************************************************************)
FileOld == ".temp-swo-model.old.pt"
FileCurrent == ".temp-swo-model.current.pt"
FileNames == {FileOld, FileCurrent}

NoFile == [status |-> "missing", content |-> <<>>]

\* A plausible bug: the file is left unflushed.
SavedUnflushed(state) == [status |-> "partial", content |-> state]

\* The file once CombiningState(...).save(name) has returned.
Saved(state) == [status |-> "complete", content |-> state]

\* The file while it is being written.
Opened(state) == [status |-> "partial", content |-> <<>>]

\* The network pair evaluated on configurations xs, through
\* CombiningState.forward.
Evaluate(state, xs) ==
    CombiningState_forward(
        [k \in DOMAIN xs |-> [A |-> FNum(state.amplitude.out),
                              logits |-> state.phase.out]])

\* The amplitude network alone on xs, flattened.
AmplitudeOn(state, xs) == [k \in DOMAIN xs |-> FNum(state.amplitude.out)]

(***************************************************************************)
(* main and swo_step.                                                      *)
(***************************************************************************)
\* AmplitudeNet(number_spins), PhaseNet(number_spins): freshly built networks
InitialNetworks ==
    [amplitude |-> [ver |-> 0, out |-> 1], phase |-> [ver |-> 0, out |-> <<0, 0>>]]

Configs ==
    {c \in [number_spins : 2..MaxSpins, magnetisation : (-MaxSpins)..MaxSpins,
            difference_sampling : BOOLEAN, epochs : {MaxEpochs},
            steps : Schedules] :
        c.magnetisation \in Magnetisations(c.number_spins)}

NoLocals ==
    /\ loaded = [n \in FileNames |-> NoFile]
    /\ sampler = SamplerIdle
    /\ result = <<>>
    /\ extra_result = <<>>
    /\ samples = <<>>
    /\ target_amplitudes = <<>>
    /\ target_phases = <<>>
    /\ scale = FNum(1)
    /\ trace = <<>>

Init ==
    /\ pc = "main"
    /\ args = [x |-> <<>>]
    /\ ret = [kind |-> "none"]
    /\ debug = TRUE
    /\ i = 0
    /\ config \in Configs
    /\ psi = InitialNetworks
    /\ files = [n \in FileNames |-> NoFile]
    /\ NoLocals

\* main: for i in range(_OPTIONS["epochs"]), the call of swo_step
MainIterate ==
    /\ pc = "main"
    /\ i < config.epochs
    /\ pc' = "save_old"
    /\ UNCHANGED <<args, ret, debug, orchVars>>

MainExit ==
    /\ pc = "main"
    /\ ~(i < config.epochs)
    /\ pc' = "done"
    /\ UNCHANGED <<args, ret, debug, orchVars>>

\* CombiningState(...).save(tempfile_name): the file is opened ...
SaveOldBegin ==
    /\ pc = "save_old"
    /\ files' = [files EXCEPT ![FileOld] = Opened(psi)]
    /\ pc' = "save_old_write"
    /\ UNCHANGED <<args, ret, debug, i, config, psi, loaded, sampler, result,
                   extra_result, samples, target_amplitudes, target_phases,
                   scale, trace>>

\* ... and written, and save returns.
SaveOldEnd ==
    /\ pc = "save_old_write"
    /\ files' = [files EXCEPT ![FileOld] = Saved(psi)]
    /\ trace' = Append(trace, "save_old")
    /\ pc' = "generate_train_data"
    /\ UNCHANGED <<args, ret, debug, i, config, psi, loaded, sampler, result,
                   extra_result, samples, target_amplitudes, target_phases,
                   scale>>

\* _C.sample_some(filename, ...): the engine loads the checkpoint.
SampleSomeLoad ==
    /\ pc = "generate_train_data"
    /\ loaded' = [loaded EXCEPT ![FileOld] = files[FileOld]]
    /\ \E kind \in PassKinds :
          sampler' = [SamplerIdle EXCEPT !.kind = kind,
                                         !.options = ChainOptions(config)]
    /\ pc' = "sample_some"
    /\ UNCHANGED <<args, ret, debug, i, config, psi, files, result,
                   extra_result, samples, target_amplitudes, target_phases,
                   scale, trace>>

Sampling == pc \in {"sample_some", "sample_difference"}

SamplingOver ==
    sampler.conf = <<>> /\ sampler.chains = sampler.options.steps[1]

\* A chain starts from a random configuration of the sector.
ChainStart ==
    /\ Sampling
    /\ sampler.conf = <<>>
    /\ sampler.chains < sampler.options.steps[1]
    /\ \E c \in Sector(sampler.options.number_spins,
                       sampler.options.magnetisation) :
          sampler' = [sampler EXCEPT !.conf = c, !.step = 0]
    /\ UNCHANGED <<pc, args, ret, debug, i, config, psi, files, loaded, result,
                   extra_result, samples, target_amplitudes, target_phases,
                   scale, trace>>

\* One step of a chain: a move is proposed, accepted or rejected, and the
\* configuration the chain is then in is recorded.
ChainStep ==
    /\ Sampling
    /\ sampler.conf # <<>>
    /\ \E a, b \in 1..sampler.options.number_spins, accept \in BOOLEAN :
          LET c == IF accept THEN SwapMove(sampler.conf, a, b) ELSE sampler.conf
              last == sampler.step + 1 = sampler.options.steps[2]
          IN  /\ a < b
              /\ sampler' =
                    [sampler EXCEPT
                        !.ens = Record(@, c, FilterValue(sampler.kind, c)),
                        !.conf = IF last THEN <<>> ELSE c,
                        !.step = IF last THEN 0 ELSE @ + 1,
                        !.chains = IF last THEN @ + 1 ELSE @]
    /\ UNCHANGED <<pc, args, ret, debug, i, config, psi, files, loaded, result,
                   extra_result, samples, target_amplitudes, target_phases,
                   scale, trace>>

\* generate_train_data returns: result, to_tensors() and the targets.
GenerateTrainDataReturn ==
    /\ pc = "sample_some"
    /\ SamplingOver
    /\ result' = sampler.ens
    /\ LET t == ToTensors(sampler.ens)
       IN  /\ samples' = t.samples
           /\ target_amplitudes' = TargetAmplitudes(t.values)
           /\ target_phases' = TargetSigns(t.values)
    /\ sampler' = SamplerIdle
    /\ trace' = Append(trace, "sample")
    /\ pc' = "train_amplitude_1"
    /\ UNCHANGED <<args, ret, debug, i, config, psi, files, loaded,
                   extra_result, scale>>

\* train_amplitude: the network is fitted, to whatever the optimiser reaches.
TrainAmplitude ==
    /\ pc \in {"train_amplitude_1", "train_amplitude_2"}
    /\ \E out \in AmpOutputs :
          psi' = [psi EXCEPT !.amplitude = [ver |-> @.ver + 1, out |-> out]]
    /\ trace' = Append(trace, "train_amplitude")
    /\ pc' = IF pc = "train_amplitude_1" THEN "train_phase_1" ELSE "train_phase_2"
    /\ UNCHANGED <<args, ret, debug, i, config, files, loaded, sampler, result,
                   extra_result, samples, target_amplitudes, target_phases,
                   scale>>

\* train_phase
TrainPhase ==
    /\ pc \in {"train_phase_1", "train_phase_2"}
    /\ \E out \in PhaseOutputs :
          psi' = [psi EXCEPT !.phase = [ver |-> @.ver + 1, out |-> out]]
    /\ trace' = Append(trace, "train_phase")
    /\ pc' = IF pc = "train_phase_1" THEN "difference_sampling" ELSE "swo_return"
    /\ UNCHANGED <<args, ret, debug, i, config, files, loaded, sampler, result,
                   extra_result, samples, target_amplitudes, target_phases,
                   scale>>

\* if config["difference_sampling"]: not taken
SkipDifferenceSampling ==
    /\ pc = "difference_sampling"
    /\ ~config.difference_sampling
    /\ pc' = "swo_return"
    /\ UNCHANGED <<args, ret, debug, orchVars>>

ScaleCall == optimise_scale(AmplitudeOn(psi, samples), target_amplitudes, debug)

\* A plausible bug: the option is not consulted.
OptimiseScaleUnconditional ==
    /\ pc = "difference_sampling"
    /\ ScaleCall.kind = "value"
    /\ scale' = FAbs(ScaleCall.value)
    /\ trace' = Append(trace, "optimise_scale")
    /\ pc' = "save_current"
    /\ UNCHANGED <<args, ret, debug, i, config, psi, files, loaded, sampler,
                   result, extra_result, samples, target_amplitudes,
                   target_phases>>

\* scale = abs(optimise_scale(...))
OptimiseScaleReturns ==
    /\ pc = "difference_sampling"
    /\ config.difference_sampling
    /\ ScaleCall.kind = "value"
    /\ scale' = FAbs(ScaleCall.value)
    /\ trace' = Append(trace, "optimise_scale")
    /\ pc' = "save_current"
    /\ UNCHANGED <<args, ret, debug, i, config, psi, files, loaded, sampler,
                   result, extra_result, samples, target_amplitudes,
                   target_phases>>

\* optimise_scale raises: nothing in swo_step or main catches it.
OptimiseScaleRaises ==
    /\ pc = "difference_sampling"
    /\ config.difference_sampling
    /\ ScaleCall.kind = "raised"
    /\ ret' = ScaleCall
    /\ pc' = "crashed"
    /\ UNCHANGED <<args, debug, orchVars>>

SaveCurrentBegin ==
    /\ pc = "save_current"
    /\ files' = [files EXCEPT ![FileCurrent] = Opened(psi)]
    /\ pc' = "save_current_write"
    /\ UNCHANGED <<args, ret, debug, i, config, psi, loaded, sampler, result,
                   extra_result, samples, target_amplitudes, target_phases,
                   scale, trace>>

SaveCurrentEnd ==
    /\ pc = "save_current_write"
    /\ files' = [files EXCEPT ![FileCurrent] = Saved(psi)]
    /\ trace' = Append(trace, "save_current")
    /\ pc' = "generate_more_data"
    /\ UNCHANGED <<args, ret, debug, i, config, psi, loaded, sampler, result,
                   extra_result, samples, target_amplitudes, target_phases,
                   scale>>

\* _C.sample_difference(new_state, old_state, ...): both checkpoints are
\* loaded.
SampleDifferenceLoad ==
    /\ pc = "generate_more_data"
    /\ loaded' = [n \in FileNames |-> files[n]]
    /\ \E kind \in PassKinds :
          sampler' = [SamplerIdle EXCEPT !.kind = kind,
                                         !.options = MoreChainOptions(config)]
    /\ pc' = "sample_difference"
    /\ UNCHANGED <<args, ret, debug, i, config, psi, files, result,
                   extra_result, samples, target_amplitudes, target_phases,
                   scale, trace>>

\* values += torch.jit.load(new_state)(samples).view([-1]); values /= scale
Rescaled(e, state, s) ==
    LET t == ToTensors(e)
        new == Evaluate(state, t.samples)
    IN  [k \in DOMAIN e |->
            [e[k] EXCEPT !.value = FDiv(FAdd(t.values[k], new[k]), s)]]

\* generate_more_data returns the ensemble with its values rescaled.
GenerateMoreDataReturn ==
    /\ pc = "sample_difference"
    /\ SamplingOver
    /\ loaded' = [loaded EXCEPT ![FileCurrent] = files[FileCurrent]]
    /\ extra_result' = Rescaled(sampler.ens, files[FileCurrent].content, scale)
    /\ sampler' = SamplerIdle
    /\ trace' = Append(trace, "sample_difference")
    /\ pc' = "merge"
    /\ UNCHANGED <<args, ret, debug, i, config, psi, files, result, samples,
                   target_amplitudes, target_phases, scale>>

\* A plausible bug: the extra entries are appended to the first ones.
MergeExtraAppended ==
    /\ pc = "merge"
    /\ result' = result \o extra_result
    /\ trace' = Append(trace, "merge")
    /\ pc' = "retarget"
    /\ UNCHANGED <<args, ret, debug, i, config, psi, files, loaded, sampler,
                   extra_result, samples, target_amplitudes, target_phases,
                   scale>>

\* result.merge(extra_result)
MergeExtra ==
    /\ pc = "merge"
    /\ result' = Merge(result, extra_result)
    /\ trace' = Append(trace, "merge")
    /\ pc' = "retarget"
    /\ UNCHANGED <<args, ret, debug, i, config, psi, files, loaded, sampler,
                   extra_result, samples, target_amplitudes, target_phases,
                   scale>>

\* samples, phi, _ = result.to_tensors() and the targets of the second pass
Retarget ==
    /\ pc = "retarget"
    /\ LET t == ToTensors(result)
       IN  /\ samples' = t.samples
           /\ target_amplitudes' = TargetAmplitudes(t.values)
           /\ target_phases' = TargetSigns(t.values)
    /\ pc' = "train_amplitude_2"
    /\ UNCHANGED <<args, ret, debug, i, config, psi, files, loaded, sampler,
                   result, extra_result, scale, trace>>

\* swo_step returns the networks to main's loop; its locals are gone.
SwoReturn ==
    /\ pc = "swo_return"
    /\ i' = i + 1
    /\ pc' = "main"
    /\ loaded' = [n \in FileNames |-> NoFile]
    /\ sampler' = SamplerIdle
    /\ result' = <<>>
    /\ extra_result' = <<>>
    /\ samples' = <<>>
    /\ target_amplitudes' = <<>>
    /\ target_phases' = <<>>
    /\ scale' = FNum(1)
    /\ trace' = <<>>
    /\ UNCHANGED <<args, ret, debug, config, psi, files>>

Next ==
    \/ MainIterate
    \/ MainExit
    \/ SaveOldBegin
    \/ SaveOldEnd
    \/ SampleSomeLoad
    \/ ChainStart
    \/ ChainStep
    \/ GenerateTrainDataReturn
    \/ TrainAmplitude
    \/ TrainPhase
    \/ SkipDifferenceSampling
    \/ OptimiseScaleReturns
    \/ OptimiseScaleRaises
    \/ SaveCurrentBegin
    \/ SaveCurrentEnd
    \/ SampleDifferenceLoad
    \/ GenerateMoreDataReturn
    \/ MergeExtra
    \/ Retarget
    \/ SwoReturn

Spec == Init /\ [][Next]_vars

(***************************************************************************)
(* The pure functions on their own.                                        *)
(***************************************************************************)
Idle ==
    /\ i = 0
    /\ config = [number_spins |-> 2, magnetisation |-> 0,
                 difference_sampling |-> FALSE, epochs |-> 0,
                 steps |-> <<1, 1>>]
    /\ psi = [amplitude |-> [ver |-> 0, out |-> 0],
              phase |-> [ver |-> 0, out |-> <<0, 0>>]]
    /\ files = [n \in FileNames |-> NoFile]
    /\ NoLocals

Rows == [A : Floats(AmpInts), logits : [1..2 -> LogitVals]]

InitEval ==
    /\ pc = "call"
    /\ args \in [x : SeqsUpTo(Rows, MaxBatch)]
    /\ ret = [kind |-> "none"]
    /\ debug = TRUE
    /\ Idle

CallCombiningState ==
    /\ pc = "call"
    /\ pc' = "combining"
    /\ ret' = [kind |-> "value", value |-> CombiningState_forward(args.x)]
    /\ UNCHANGED <<args, debug, orchVars>>

CallFastCombiningState ==
    /\ pc = "call"
    /\ pc' = "fast"
    /\ ret' = [kind |-> "value", value |-> FastCombiningState_forward(args.x)]
    /\ UNCHANGED <<args, debug, orchVars>>

NextEval == CallCombiningState \/ CallFastCombiningState

SpecEval == InitEval /\ [][NextEval]_vars

InitScale ==
    /\ pc = "call"
    /\ \E n \in 0..MaxLen :
          args \in [phi : [1..n -> Floats(PhiInts)],
                    psi_x : [1..n -> Floats(PsiInts)]]
    /\ ret = [kind |-> "none"]
    /\ debug \in BOOLEAN
    /\ Idle

CallOptimiseScale ==
    /\ pc = "call"
    /\ pc' = "returned"
    /\ ret' = optimise_scale(args.psi_x, args.phi, debug)
    /\ UNCHANGED <<args, debug, orchVars>>

NextScale == CallOptimiseScale

SpecScale == InitScale /\ [][NextScale]_vars

(***************************************************************************)
(* _make_checkpoints_for and the epoch loop of train_amplitude and         *)
(* train_phase.                                                            *)
(***************************************************************************)
\* list(range(start, stop, step)) for step > 0
PyRange(start, stop, step) ==
    LET len == IF stop > start THEN (stop - start + step - 1) \div step ELSE 0
    IN  [k \in 1..len |-> start + (k - 1) * step]

\* A plausible bug: the last iteration is not added.
make_checkpoints_for_strided(n) ==
    IF n <= 10 THEN PyRange(0, n, 1)
    ELSE PyRange(0, n, n \div 10)

make_checkpoints_for(n) ==
    IF n <= 10 THEN PyRange(0, n, 1)
    ELSE LET important_iterations == PyRange(0, n, n \div 10)
         IN  IF important_iterations[Len(important_iterations)] # n - 1
             THEN Append(important_iterations, n - 1)
             ELSE important_iterations

TrainFunctions == {"train_amplitude", "train_phase"}

InitTrain ==
    /\ pc = "call"
    /\ args \in [fn : TrainFunctions, epochs : 0..MaxBudget]
    /\ ret = [kind |-> "none"]
    /\ debug = TRUE
    /\ Idle

\* checkpoints = set(_make_checkpoints_for(epochs)), before the loop
TrainMakeCheckpoints ==
    /\ pc = "call"
    /\ ret' = [kind |-> "value", value |-> make_checkpoints_for(args.epochs)]
    /\ i' = 0
    /\ pc' = "epoch"
    /\ UNCHANGED <<args, debug, config, psi, files, loaded, sampler, result,
                   extra_result, samples, target_amplitudes, target_phases,
                   scale, trace>>

Checkpoints == {ret.value[k] : k \in DOMAIN ret.value}

\* One epoch of for i in range(epochs); the losses are logged if i is a
\* checkpoint.
TrainEpoch ==
    /\ pc = "epoch"
    /\ i < args.epochs
    /\ trace' = IF i \in Checkpoints THEN Append(trace, i) ELSE trace
    /\ i' = i + 1
    /\ UNCHANGED <<pc, args, ret, debug, config, psi, files, loaded, sampler,
                   result, extra_result, samples, target_amplitudes,
                   target_phases, scale>>

\* The loop is over and the training function returns.
TrainReturn ==
    /\ pc = "epoch"
    /\ ~(i < args.epochs)
    /\ pc' = "trained"
    /\ UNCHANGED <<args, ret, debug, orchVars>>

NextTrain == TrainMakeCheckpoints \/ TrainEpoch \/ TrainReturn

SpecTrain == InitTrain /\ [][NextTrain]_vars

(***************************************************************************)
(* Properties.                                                             *)
(***************************************************************************)
RECURSIVE SumTo(_, _)
SumTo(f, n) == IF n = 0 THEN 0 ELSE f[n] + SumTo(f, n - 1)

\* <a, b> of two vectors of whole numbers
Inner(a, b) == SumTo([k \in DOMAIN a |-> a[k].num * b[k].num], Len(a))

ClassSign(logits) == IF logits[1] >= logits[2] THEN 1 ELSE -1

\* C1: the combined evaluator returns, row by row, the amplitude times +1
\* when class 0 has the largest logit (ties included) and times -1 when
\* class 1 has; CombiningState and FastCombiningState alike.
C1_ForwardIsSignedAmplitude ==
    pc \in {"combining", "fast"} =>
        /\ ret.kind = "value"
        /\ DOMAIN ret.value = DOMAIN args.x
        /\ \A r \in DOMAIN args.x :
              ret.value[r] = [num |-> args.x[r].A.num * ClassSign(args.x[r].logits),
                              den |-> args.x[r].A.den]

C1_Witness ==
    /\ pc = "combining"
    /\ args.x = <<[A |-> FNum(2), logits |-> <<1, 9>>],
                  [A |-> FNum(2), logits |-> <<1, 1>>]>>
    /\ ret.value = <<FNum(-2), FNum(2)>>

\* C2: with <phi, phi> # 0, optimise_scale returns -<phi, psi(x)> / <phi, phi>.
C2_ScaleIsNegatedRatio ==
    (pc = "returned" /\ Inner(args.phi, args.phi) # 0) =>
        /\ ret.kind = "value"
        /\ ret.value.den > 0
        /\ ret.value.num * Inner(args.phi, args.phi)
              = -Inner(args.phi, args.psi_x) * ret.value.den

C2_Witness ==
    /\ pc = "returned"
    /\ args.phi = <<FNum(1), FNum(2)>>
    /\ args.psi_x = <<FNum(2), FNum(0)>>
    /\ ret = [kind |-> "value", value |-> [num |-> -2, den |-> 5]]

DoubledCase ==
    /\ pc = "returned"
    /\ args.phi = <<FNum(1), FNum(2), FNum(3)>>
    /\ args.psi_x = <<FNum(2), FNum(4), FNum(6)>>

\* C3 as stated: phi = [1,2,3] and psi(x) = [2,4,6] give -1.0.
C3_ReturnsMinusOne ==
    DoubledCase => ret = [kind |-> "value", value |-> FNum(-1)]

\* C3, amended: phi = [1,2,3] and psi(x) = [2,4,6] give -2.0.
C3_ReturnsMinusTwo ==
    DoubledCase => ret = [kind |-> "value", value |-> FNum(-2)]

C3_Witness == DoubledCase /\ ret.kind = "value" /\ ret.value.num = -2

\* C7: optimise_scale raises whenever <phi, phi> = 0 (all targets zero, or
\* no targets at all); a value is only ever returned for <phi, phi> # 0.
C7_ZeroNormRaises ==
    (pc = "returned" /\ Inner(args.phi, args.phi) = 0) =>
        /\ ret.kind = "raised"
        /\ ret.exc = IF debug THEN "AssertionError" ELSE "ZeroDivisionError"

C7_Witness ==
    /\ pc = "returned"
    /\ args.phi = <<FNum(0), FNum(0)>>
    /\ args.psi_x = <<FNum(2), FNum(4)>>
    /\ ~debug
    /\ ret.kind = "raised"

\* C4: a sampling call reads a checkpoint only after its save has returned:
\* the old-state file is complete, and holds the networks swo_step was
\* given, when sample_some starts; the current-state file is complete, and
\* holds the trained networks, when sample_difference starts.
C4_SavedBeforeSampling ==
    /\ pc = "generate_train_data" => files[FileOld] = [status |-> "complete",
                                                       content |-> psi]
    /\ pc = "sample_some" => loaded[FileOld] = [status |-> "complete",
                                                content |-> psi]
    /\ pc = "generate_more_data" =>
          /\ files[FileCurrent] = [status |-> "complete", content |-> psi]
          /\ files[FileOld].status = "complete"
    /\ pc \in {"sample_difference", "merge"} =>
          /\ loaded[FileCurrent] = [status |-> "complete", content |-> psi]
          /\ loaded[FileOld].status = "complete"
          /\ loaded[FileOld].content.amplitude.ver + 1 = psi.amplitude.ver
          /\ loaded[FileOld].content.phase.ver + 1 = psi.phase.ver

C4_Witness ==
    /\ pc = "sample_difference"
    /\ i = 1
    /\ sampler.ens # <<>>
    /\ loaded[FileCurrent].status = "complete"
    /\ loaded[FileCurrent].content.amplitude.ver = 3

TargetsOfFirstPass ==
    {"train_amplitude_1", "train_phase_1", "difference_sampling", "save_current",
     "save_current_write", "generate_more_data", "sample_difference", "merge"}

TargetsOfSecondPass == {"train_amplitude_2", "train_phase_2"}

TargetsCurrent ==
    pc \in TargetsOfFirstPass \cup TargetsOfSecondPass \cup {"swo_return"}

AbsoluteValue(v) == IF v.num < 0 THEN [num |-> -v.num, den |-> v.den] ELSE v

NonNegative(v) == v.num > 0 \/ (v.num = 0 /\ v.den # 0)

\* C5: entry by entry of the ensemble (the first one, and the merged one),
\* the configuration is the sample, the amplitude target is |value| and the
\* phase target is class 0 for value >= 0 and class 1 otherwise.
C5_TargetsFollowEntries ==
    TargetsCurrent =>
        /\ Len(samples) = Len(result)
        /\ Len(target_amplitudes) = Len(result)
        /\ Len(target_phases) = Len(result)
        /\ \A k \in DOMAIN result :
              /\ samples[k] = result[k].conf
              /\ target_amplitudes[k] = AbsoluteValue(result[k].value)
              /\ target_phases[k] = IF NonNegative(result[k].value) THEN 0 ELSE 1

C5_Witness ==
    /\ pc = "train_amplitude_2"
    /\ extra_result # <<>>
    /\ \E j, k \in DOMAIN result :
          /\ result[j].value.num < 0 /\ target_phases[j] = 1
          /\ result[k].value = FNum(0) /\ target_phases[k] = 0

\* C6 as stated: a zero norm in optimise_scale does not end the run; when
\* the run has ended, every outer iteration has been executed.
C6_RunOutlivesZeroNorm ==
    pc \in {"done", "crashed"} => i = config.epochs

Unique(e) == \A j, k \in DOMAIN e : e[j].conf = e[k].conf => j = k

SumCounts(e) == SumTo([k \in DOMAIN e |-> e[k].count], Len(e))

Visits == config.steps[1] * config.steps[2]

Merged ==
    \/ pc \in {"retarget"} \cup TargetsOfSecondPass
    \/ pc = "swo_return" /\ config.difference_sampling

\* C8: no ensemble holds two entries for one configuration, whatever the
\* chains and their steps; the counts add up to the visits recorded; and
\* this survives the merge of the difference-sampling ensemble.
C8_OneEntryPerConfiguration ==
    /\ Unique(sampler.ens) /\ Unique(result) /\ Unique(extra_result)
    /\ Sampling => SumCounts(sampler.ens) =
                       sampler.chains * config.steps[2] + sampler.step
    /\ pc \in TargetsOfFirstPass => SumCounts(result) = Visits
    /\ Merged => SumCounts(result) = 2 * Visits

C8_Witness ==
    /\ pc = "retarget"
    /\ Len(result) = 2
    /\ result[1].count = 3 /\ result[2].count = 1

RECURSIVE Binomial(_, _)
Binomial(n, k) ==
    IF k < 0 \/ k > n THEN 0
    ELSE IF k = 0 THEN 1
    ELSE Binomial(n - 1, k - 1) + Binomial(n - 1, k)

SectorSize == Binomial(config.number_spins,
                       (config.number_spins + config.magnetisation) \div 2)

InSector(c) ==
    /\ Len(c) = config.number_spins
    /\ Cardinality({k \in DOMAIN c : c[k] = 1})
          - Cardinality({k \in DOMAIN c : c[k] = -1}) = config.magnetisation

Configured(e) ==
    /\ \A k \in DOMAIN e : InSector(e[k].conf)
    /\ Cardinality({e[k].conf : k \in DOMAIN e}) <= SectorSize

\* C9: every configuration a chain is in, and every configuration of an
\* ensemble, has the configured magnetisation, so an ensemble holds no more
\* distinct configurations than the sector has.
C9_MagnetisationSector ==
    /\ sampler.conf # <<>> => InSector(sampler.conf)
    /\ Configured(sampler.ens)
    /\ Configured(result)
    /\ Configured(extra_result)

C9_Witness ==
    /\ pc = "retarget"
    /\ config.number_spins = 3
    /\ config.magnetisation = 1
    /\ Cardinality({result[k].conf : k \in DOMAIN result}) = 3

FullOrder ==
    <<"save_old", "sample", "train_amplitude", "train_phase", "optimise_scale",
      "save_current", "sample_difference", "merge", "train_amplitude",
      "train_phase">>

PlainOrder == <<"save_old", "sample", "train_amplitude", "train_phase">>

IsPrefix(s, t) == Len(s) <= Len(t) /\ \A k \in DOMAIN s : s[k] = t[k]

\* C10: with difference_sampling set, swo_step samples, trains both
\* networks, optimises the scale, saves the current checkpoint, samples the
\* difference, merges and trains both networks again, in this order; with
\* the option off it trains once and neither samples again nor merges.
C10_StepOrder ==
    IF config.difference_sampling
    THEN /\ IsPrefix(trace, FullOrder)
         /\ pc = "swo_return" => trace = FullOrder
    ELSE /\ IsPrefix(trace, PlainOrder)
         /\ pc = "swo_return" => trace = PlainOrder

C10_Witness ==
    /\ pc = "swo_return"
    /\ config.difference_sampling
    /\ trace = FullOrder
    /\ Len(result) > Len(extra_result)

\* C11 as stated: whenever swo_step has reached generate_more_data, the
\* scale it passes, which is the filter's scale and the divisor of
\* values /= scale, is strictly positive.
C11_ScaleStrictlyPositive ==
    pc \in {"generate_more_data", "sample_difference"} =>
        scale.den > 0 /\ scale.num > 0

\* C12: for an epoch budget n >= 1 the checkpoints are strictly increasing
\* indices of 0..n-1 with 0 and n-1 among them: all of 0..n-1 for n <= 10,
\* the multiples of n \div 10 below n together with n-1 for n > 10; so the
\* training loop, once over, has logged its last epoch n-1.
C12_CheckpointsReachLastEpoch ==
    (pc \in {"epoch", "trained"} /\ args.epochs >= 1) =>
        LET n == args.epochs
            c == ret.value
        IN  /\ \A j, k \in DOMAIN c : j < k => c[j] < c[k]
            /\ \A k \in DOMAIN c : c[k] \in 0..(n - 1)
            /\ 0 \in Checkpoints /\ n - 1 \in Checkpoints
            /\ n <= 10 => Checkpoints = 0..(n - 1)
            /\ n > 10 => Checkpoints =
                  {m \in 0..(n - 1) : m % (n \div 10) = 0} \cup {n - 1}
            /\ pc = "trained" =>
                  /\ trace # <<>>
                  /\ trace[Len(trace)] = n - 1
                  /\ {trace[k] : k \in DOMAIN trace} = Checkpoints

C12_Witness ==
    /\ pc = "trained"
    /\ args.epochs = 20
    /\ ret.value = <<0, 2, 4, 6, 8, 10, 12, 14, 16, 18, 19>>
    /\ trace = ret.value

====
